---- MODULE Spec2Model ----
(***************************************************************************)
(* Model of dask_groupby/xarray.py: the chunk-boundary optimizer           *)
(* (_get_optimal_chunks_for_groups), rechunk_to_group_boundaries,          *)
(* resample_reduce, and xarray_reduce with its densifying wrapper.         *)
(* Index values are 0-based as in the source; TLA+ sequences are 1-based,  *)
(* so element i of a numpy array a is a[i + 1].                            *)
(***************************************************************************)
EXTENDS Integers, Sequences, FiniteSets, TLC

\* ------------------------------------------------------------------ bounds
MaxLen == 7           \* longest grouping dimension for the optimizer
MaxLabel == 2         \* largest group code
MaxResampleLen == 4   \* longest grouping dimension for resample_reduce
MaxObjLen == 2        \* longest grouping dimension for xarray_reduce
MaxKeys == 2          \* most grouping keys of an xarray_reduce call
MaxAxes == 3          \* most axes of a canonical shape given to the wrapper
MaxLevels == 3        \* most levels of one key
MaxCodes == 8         \* largest product(group_shape)
MaxObserved == 2      \* most codes groupby_reduce reports to the wrapper
MaxRows == 2          \* largest extent of the non-grouped leading axis

VARIABLES
    chunks,       \* array.chunks[axis]: partition sizes along the grouping dim
    labels,       \* labels.data: one group code per element
    pc,           \* which call has completed
    newchunks,    \* value returned by _get_optimal_chunks_for_groups
    walked,       \* TRUE iff the call went past the fast path (line 154)
    again,        \* value returned when the function is applied to its output
    againWalked,  \* TRUE iff that second call went past the fast path
    rechunk,      \* what rechunk_to_group_boundaries returned and issued
    call,         \* arguments of the last xarray_reduce / wrapper /
                  \* resample_reduce call
    outcome       \* what that call returned or raised

vars == <<chunks, labels, pc, newchunks, walked, again, againWalked, rechunk,
          call, outcome>>

\* ------------------------------------------------------- numpy primitives
Abs(x) == IF x < 0 THEN -x ELSE x

Last(s) == s[Len(s)]

RECURSIVE Sum(_)
Sum(s) == IF Len(s) = 0 THEN 0 ELSE s[1] + Sum(Tail(s))

RECURSIVE CumSum(_)
CumSum(s) ==
    IF Len(s) = 0 THEN <<>>
    ELSE LET front == CumSum(SubSeq(s, 1, Len(s) - 1))
         IN  Append(front, (IF Len(front) = 0 THEN 0 ELSE Last(front)) + Last(s))

Diff(s) == [i \in 1..(Len(s) - 1) |-> s[i + 1] - s[i]]

Arange(n) == [i \in 1..n |-> i - 1]

\* fancy indexing a[idx] with a sequence of 0-based indices
TakeIdx(a, idx) == [i \in 1..Len(idx) |-> a[idx[i] + 1]]

SetMin(S) == CHOOSE x \in S : \A y \in S : x <= y
SetMax(S) == CHOOSE x \in S : \A y \in S : y <= x

RECURSIVE SortedSeq(_)
SortedSeq(S) ==
    IF S = {} THEN <<>>
    ELSE LET m == SetMin(S) IN <<m>> \o SortedSeq(S \ {m})

\* np.unique: the distinct values, ascending
Unique(s) == SortedSeq({s[i] : i \in 1..Len(s)})

\* npg aggregate(group_idx, a, func="last"): ret has max(group_idx) + 1
\* entries, initialised to the fill value 0; a is written in order, so the
\* last write to each group stays.
RECURSIVE AggScatter(_, _, _, _)
AggScatter(ret, group_idx, a, order) ==
    IF Len(order) = 0 THEN ret
    ELSE LET i == order[1]
         IN  AggScatter([ret EXCEPT ![group_idx[i] + 1] = a[i]],
                        group_idx, a, Tail(order))

AggZeros(group_idx) ==
    [g \in 1..(SetMax({group_idx[i] : i \in 1..Len(group_idx)}) + 1) |-> 0]

AggregateLast(group_idx, a) ==
    AggScatter(AggZeros(group_idx), group_idx, a,
               [i \in 1..Len(a) |-> i])

\* func="first": the same scatter over the reversed arrays
AggregateFirst(group_idx, a) ==
    AggScatter(AggZeros(group_idx), group_idx, a,
               [i \in 1..Len(a) |-> Len(a) + 1 - i])

\* zip(chunkidx, firstidx, lastidx) stops at the shortest argument
MinLen3(a, b, c) == SetMin({Len(a), Len(b), Len(c)})
Zip3(a, b, c) == [i \in 1..MinLen3(a, b, c) |-> <<a[i], b[i], c[i]>>]

\* ------------------------------------- _get_optimal_chunks_for_groups
chunkidxOf(chunks_) == [i \in 1..Len(chunks_) |-> CumSum(chunks_)[i] - 1]

labels_at_chunk_bounds(chunks_, labels_) ==
    Unique(TakeIdx(labels_, chunkidxOf(chunks_)))

last_indexes(labels_) == AggregateLast(labels_, Arange(Len(labels_)))
first_indexes(labels_) == AggregateFirst(labels_, Arange(Len(labels_)))

lastidxOf(chunks_, labels_) ==
    TakeIdx(last_indexes(labels_), labels_at_chunk_bounds(chunks_, labels_))
firstidxOf(chunks_, labels_) ==
    TakeIdx(first_indexes(labels_), labels_at_chunk_bounds(chunks_, labels_))

\* variant of FastPath: only the lengths are compared
FastPath_LengthOnly(chunks_, labels_) ==
    Len(chunkidxOf(chunks_)) = Len(lastidxOf(chunks_, labels_))

\* line 153
FastPath(chunks_, labels_) ==
    /\ Len(chunkidxOf(chunks_)) = Len(lastidxOf(chunks_, labels_))
    /\ \A i \in 1..Len(chunks_) :
          chunkidxOf(chunks_)[i] = lastidxOf(chunks_, labels_)[i]

\* the triples the loop of line 160 iterates over
WalkTriples(chunks_, labels_) ==
    Zip3(chunkidxOf(chunks_), firstidxOf(chunks_, labels_),
         lastidxOf(chunks_, labels_))

\* variant of WalkStep: the group's last index is emitted, not the index after
WalkStep_LastNotAfter(newchunkidx, c, f, l) ==
    IF c = 0 \/ Last(newchunkidx) > l
    THEN newchunkidx
    ELSE IF Abs(c - f) < Abs(c - l) /\ f > Last(newchunkidx)
         THEN Append(newchunkidx, f)
         ELSE Append(newchunkidx, l)

\* variant of WalkStep: the original boundary is kept when first is not chosen
WalkStep_KeepsBoundary(newchunkidx, c, f, l) ==
    IF c = 0 \/ Last(newchunkidx) > l
    THEN newchunkidx
    ELSE IF Abs(c - f) < Abs(c - l) /\ f > Last(newchunkidx)
         THEN Append(newchunkidx, f)
         ELSE Append(newchunkidx, c + 1)

\* one iteration of the loop body, lines 161-168
WalkStep(newchunkidx, c, f, l) ==
    IF c = 0 \/ Last(newchunkidx) > l
    THEN newchunkidx
    ELSE IF Abs(c - f) < Abs(c - l) /\ f > Last(newchunkidx)
         THEN Append(newchunkidx, f)
         ELSE Append(newchunkidx, l + 1)

RECURSIVE Walk(_, _)
Walk(newchunkidx, triples) ==
    IF Len(triples) = 0 THEN newchunkidx
    ELSE Walk(WalkStep(newchunkidx, triples[1][1], triples[1][2], triples[1][3]),
              Tail(triples))

\* variant of NewChunkIdx: the final boundary is not forced
NewChunkIdx_NoForcedEnd(chunks_, labels_) ==
    Walk(<<0>>, WalkTriples(chunks_, labels_))

\* lines 159-171: the walk, the forced final boundary, and the differences
NewChunkIdx(chunks_, labels_) ==
    LET walkedIdx == Walk(<<0>>, WalkTriples(chunks_, labels_))
        end == Last(chunkidxOf(chunks_)) + 1
    IN  IF Last(walkedIdx) # end THEN Append(walkedIdx, end) ELSE walkedIdx

\* the whole function: the returned tuple, whether the walk ran, and whether
\* the assertion of line 173 failed
GetOptimalChunksForGroups(chunks_, labels_) ==
    IF FastPath(chunks_, labels_)
    THEN [chunks |-> chunks_, walked |-> FALSE, error |-> "none"]
    ELSE LET nc == Diff(NewChunkIdx(chunks_, labels_))
         IN  IF Sum(nc) = Sum(chunks_)
             THEN [chunks |-> nc, walked |-> TRUE, error |-> "none"]
             ELSE [chunks |-> <<>>, walked |-> TRUE, error |-> "AssertionError"]

\* ------------------------------------------------------------- inputs
RECURSIVE Partitionings(_)
Partitionings(n) ==
    IF n = 0 THEN {<<>>}
    ELSE UNION {{<<k>> \o rest : rest \in Partitionings(n - k)} : k \in 1..n}

NonDecreasing(n) ==
    {l \in [1..n -> 0..MaxLabel] : \A i \in 1..(n - 1) : l[i] <= l[i + 1]}

Dims == {"time", "x"}

NoCall == [op |-> "none"]
NoOutcome == [error |-> "none"]

NoRechunk == [dim |-> "time", same |-> FALSE, calls |-> <<>>, error |-> "none"]

\* the labels of the docstring (line 182), with an aligned and a misaligned
\* partitioning of them
DocLabels == <<0, 0, 0, 1, 1, 1, 1, 2, 2>>
DocChunks == {<<3, 4, 2>>, <<4, 3, 2>>}

Init ==
    /\ \/ \E n \in 1..MaxLen :
             /\ chunks \in Partitionings(n)
             /\ labels \in NonDecreasing(n)
       \/ /\ chunks \in DocChunks
          /\ labels = DocLabels
    /\ pc = "start"
    /\ newchunks = <<>>
    /\ walked = FALSE
    /\ again = <<>>
    /\ againWalked = FALSE
    /\ rechunk = NoRechunk
    /\ call = NoCall
    /\ outcome = NoOutcome

\* a direct call optimal = _get_optimal_chunks_for_groups(chunks, labels)
GetOptimalChunks ==
    /\ pc = "start"
    /\ LET r == GetOptimalChunksForGroups(chunks, labels)
       IN  /\ newchunks' = r.chunks
           /\ walked' = r.walked
           /\ pc' = IF r.error = "none" THEN "optimized" ELSE r.error
    /\ UNCHANGED <<chunks, labels, again, againWalked, rechunk, call, outcome>>

\* the function applied to its own output with the same labels
Reapply ==
    /\ pc = "optimized"
    /\ LET r == GetOptimalChunksForGroups(newchunks, labels)
       IN  /\ again' = r.chunks
           /\ againWalked' = r.walked
           /\ pc' = IF r.error = "none" THEN "reapplied" ELSE r.error
    /\ UNCHANGED <<chunks, labels, newchunks, walked, rechunk, call, outcome>>

\* variant of RechunkToGroupBoundaries: the comparison of line 188 inverted
RechunkToGroupBoundaries_Inverted(chunks_, dim_, labels_) ==
    LET r == GetOptimalChunksForGroups(chunks_, labels_)
    IN  IF r.error # "none"
        THEN [dim |-> dim_, same |-> FALSE, calls |-> <<>>, error |-> r.error]
        ELSE IF r.chunks # chunks_
             THEN [dim |-> dim_, same |-> TRUE, calls |-> <<>>, error |-> "none"]
             ELSE [dim |-> dim_, same |-> FALSE,
                   calls |-> <<(dim_ :> r.chunks)>>, error |-> "none"]

\* rechunk_to_group_boundaries(array, dim, labels), lines 185-191; chunks_ is
\* array.chunks[axis] for the axis of dim_. same is TRUE when the original
\* array is returned; calls lists the argument of every array.chunk call.
RechunkToGroupBoundaries(chunks_, dim_, labels_) ==
    LET r == GetOptimalChunksForGroups(chunks_, labels_)
    IN  IF r.error # "none"
        THEN [dim |-> dim_, same |-> FALSE, calls |-> <<>>, error |-> r.error]
        ELSE IF r.chunks = chunks_
             THEN [dim |-> dim_, same |-> TRUE, calls |-> <<>>, error |-> "none"]
             ELSE [dim |-> dim_, same |-> FALSE,
                   calls |-> <<(dim_ :> r.chunks)>>, error |-> "none"]

Rechunk ==
    /\ pc = "start"
    /\ \E d \in Dims : rechunk' = RechunkToGroupBoundaries(chunks, d, labels)
    /\ pc' = IF rechunk'.error = "none" THEN "rechunked" ELSE rechunk'.error
    /\ UNCHANGED <<chunks, labels, newchunks, walked, again, againWalked,
                   call, outcome>>

Next == GetOptimalChunks \/ Reapply \/ Rechunk

Spec == Init /\ [][Next]_vars


\* ------------------------------------------------ reduction collaborators
\* Python None for expected_groups, array.chunks and slice.stop
None == <<>>
NoneStop == -1

RECURSIVE Prod(_)
Prod(s) == IF Len(s) = 0 THEN 1 ELSE s[1] * Prod(Tail(s))

\* values of array at the positions where by equals g
RECURSIVE Select(_, _, _)
Select(array, by, g) ==
    IF Len(array) = 0 THEN <<>>
    ELSE (IF by[1] = g THEN <<array[1]>> ELSE <<>>)
         \o Select(Tail(array), Tail(by), g)

Agg(func, vals) ==
    IF func = "sum" THEN Sum(vals)
    ELSE SetMax({vals[i] : i \in 1..Len(vals)})

\* reduction of one partition: one value per group present, and those groups
ReduceChunk(array, by, func) ==
    LET groups == Unique(by)
    IN  [result |-> [j \in 1..Len(groups) |->
                        Agg(func, Select(array, by, groups[j]))],
         groups |-> groups]

\* blockwise mode: every partition reduced on its own, no merge across
\* partitions; the partial results follow one another along the grouped axis
RECURSIVE BlockwiseReduce(_, _, _, _)
BlockwiseReduce(array, by, chunks_, func) ==
    IF Len(chunks_) = 0 THEN [result |-> <<>>, groups |-> <<>>]
    ELSE LET n == chunks_[1]
             head == ReduceChunk(SubSeq(array, 1, n), SubSeq(by, 1, n), func)
             rest == BlockwiseReduce(SubSeq(array, n + 1, Len(array)),
                                     SubSeq(by, n + 1, Len(by)),
                                     Tail(chunks_), func)
         IN  [result |-> head.result \o rest.result,
              groups |-> head.groups \o rest.groups]

\* groupby_reduce(array, by, func, blockwise) on an array partitioned as
\* chunks_ (None: not partitioned); the result has one leading row
GroupbyReduce(array, by, func, blockwise, chunks_) ==
    LET r == IF blockwise /\ chunks_ # None
             THEN BlockwiseReduce(array, by, chunks_, func)
             ELSE ReduceChunk(array, by, func)
    IN  [result |-> <<r.result>>, groups |-> r.groups]

\* reindex_(array, from_, to, fill_value, axis=-1) on one row: a buffer of
\* len(to) fill values, then every value scattered to the position of its code
PosIn(to, v) == CHOOSE i \in 1..Len(to) : to[i] = v

RECURSIVE ReindexScatter(_, _, _, _)
ReindexScatter(buffer, array, from_, to) ==
    IF Len(from_) = 0 THEN buffer
    ELSE ReindexScatter(
            IF \E i \in 1..Len(to) : to[i] = from_[1]
            THEN [buffer EXCEPT ![PosIn(to, from_[1])] = array[1]]
            ELSE buffer,
            Tail(array), Tail(from_), to)

Reindex(array, from_, to, fill_value) ==
    ReindexScatter([i \in 1..Len(to) |-> fill_value], array, from_, to)

\* factorize_ for several keys: per key its levels (the expected values, or
\* the sorted unique values) and the index of every element in them; the
\* combined code ravels the index tuple in row-major order
RECURSIVE RavelFrom(_, _, _)
RavelFrom(acc, idx, shape) ==
    IF Len(idx) = 0 THEN acc
    ELSE RavelFrom(acc * shape[1] + idx[1], Tail(idx), Tail(shape))

RavelMultiIndex(idx, shape) == RavelFrom(0, idx, shape)

Factorize(datas, expected_groups) ==
    LET levels == [k \in 1..Len(datas) |->
                      IF expected_groups = None THEN Unique(datas[k])
                      ELSE expected_groups[k]]
        shape == [k \in 1..Len(datas) |-> Len(levels[k])]
    IN  [group_idx |-> [i \in 1..Len(datas[1]) |->
                           RavelMultiIndex(
                               [k \in 1..Len(datas) |->
                                   PosIn(levels[k], datas[k][i]) - 1],
                               shape)],
         expected_groups |-> levels,
         group_shape |-> shape]

\* ------------------------------------------------------- xarray_reduce
\* variant of Reshape: Fortran order, the first axis varying fastest
RECURSIVE Reshape_FortranOrder(_, _)
Reshape_FortranOrder(flat, shape) ==
    IF Len(shape) <= 1 THEN flat
    ELSE LET inner == Prod(Tail(shape))
         IN  [i \in 1..shape[1] |->
                 Reshape_FortranOrder(
                     [j \in 1..inner |-> flat[(j - 1) * shape[1] + i]],
                     Tail(shape))]

\* ndarray.reshape of a flat row into shape, C order: the row is cut into
\* shape[0] consecutive pieces and each piece reshaped into the rest
RECURSIVE Reshape(_, _)
Reshape(flat, shape) ==
    IF Len(shape) <= 1 THEN flat
    ELSE LET inner == Prod(Tail(shape))
         IN  [i \in 1..shape[1] |->
                 Reshape(SubSeq(flat, (i - 1) * inner + 1, i * inner),
                         Tail(shape))]

\* variant of Reindexed: the target codes run from 1 to N instead of 0 to N-1
Reindexed_OneBased(result, groups, group_shape, fill_value) ==
    [r \in 1..Len(result) |->
        Reindex(result[r], groups, [i \in 1..Prod(group_shape) |-> i],
                fill_value)]

\* lines 71-77 of wrapper: every row of result reindexed from the observed
\* groups to arange(prod(group_shape))
Reindexed(result, groups, group_shape, fill_value) ==
    [r \in 1..Len(result) |->
        Reindex(result[r], groups, Arange(Prod(group_shape)), fill_value)]

\* wrapper, lines 66-79, applied to what groupby_reduce returned; nby is
\* len(by) and result has shape (rows, len(groups))
Wrapper(result, groups, nby, group_shape, fill_value) ==
    IF nby > 1
    THEN [r \in 1..Len(result) |->
            Reshape(Reindexed(result, groups, group_shape, fill_value)[r],
                    group_shape)]
    ELSE result

IsDaskCollection(key) == key.backing = "dask"
IsNdarray(key) == key.backing = "numpy"

\* variant of RejectsKeys: all keys instead of any key
RejectsKeys_AllLazy(by) ==
    Len(by) > 1 /\ \A k \in 1..Len(by) : by[k].backing = "dask"

\* variant of SingleKeyExpected: the key values taken without np.unique
SingleKeyExpected_NoUnique(by, expected_groups) ==
    IF expected_groups = None /\ by[1].backing = "numpy"
    THEN <<by[1].data>>
    ELSE expected_groups

\* line 31: the guard of the ValueError
RejectsKeys(by) ==
    Len(by) > 1 /\ \E k \in 1..Len(by) : IsDaskCollection(by[k])

\* lines 52-53: the expected groups of the single-key path
SingleKeyExpected(by, expected_groups) ==
    IF expected_groups = None /\ IsNdarray(by[1])
    THEN <<Unique(by[1].data)>>
    ELSE expected_groups

\* xarray_reduce, lines 29-102: obj and every key are 1-D along the grouping
\* dimension; steps lists the collaborators called, in order
XarrayReduce(obj, objchunks, by, func, expected_groups, fill_value, blockwise) ==
    IF RejectsKeys(by)
    THEN [error |-> "ValueError", steps |-> <<>>]
    ELSE IF Len(by) > 1
    THEN LET f == Factorize([k \in 1..Len(by) |-> by[k].data], expected_groups)
             g == GroupbyReduce(obj, f.group_idx, func, blockwise, objchunks)
         IN  [error |-> "none",
              steps |-> <<"broadcast", "factorize", "reduce">>,
              expected_groups |-> f.expected_groups,
              group_shape |-> f.group_shape,
              result |-> Wrapper(g.result, g.groups, Len(by), f.group_shape,
                                 fill_value)]
    ELSE LET expected == SingleKeyExpected(by, expected_groups)
         IN  IF expected = None
             THEN [error |-> "NotImplementedError", steps |-> <<"broadcast">>]
             ELSE LET group_shape == <<Len(expected[1])>>
                      g == GroupbyReduce(obj, by[1].data, func, blockwise,
                                         objchunks)
                  IN  [error |-> "none",
                       steps |-> <<"broadcast", "reduce">>,
                       expected_groups |-> expected,
                       group_shape |-> group_shape,
                       result |-> Wrapper(g.result, g.groups, Len(by),
                                          group_shape, fill_value)]

\* ------------------------------------------------------ resample_reduce
\* lines 206-213: the label array built from resampler._group_indices
RECURSIVE BuildLabels(_, _, _)
BuildLabels(group_indices, idx, size) ==
    IF Len(group_indices) = 0 THEN <<>>
    ELSE LET slicer == group_indices[1]
             stop == IF slicer.stop = NoneStop THEN size ELSE slicer.stop
         IN  [i \in 1..(stop - slicer.start) |-> idx]
             \o BuildLabels(Tail(group_indices), idx + 1, size)

\* resample_reduce, lines 200-226
ResampleReduce(obj, objchunks, group_indices, unique_coord, func) ==
    LET by == BuildLabels(group_indices, 0, Len(obj))
        re == IF objchunks # None
              THEN RechunkToGroupBoundaries(objchunks, "time", by)
              ELSE [dim |-> "time", same |-> TRUE, calls |-> <<>>,
                    error |-> "none"]
        arraychunks == IF Len(re.calls) = 0 THEN objchunks
                       ELSE re.calls[1]["time"]
    IN  IF re.error # "none"
        THEN [error |-> re.error, steps |-> <<>>]
        ELSE [by |-> by, chunks |-> arraychunks] @@
             XarrayReduce(obj, arraychunks,
                          <<[backing |-> "numpy", data |-> by]>>,
                          func, <<unique_coord>>, 0, TRUE)

\* ----------------------------------------------- calls of xarray_reduce
Funcs == {"sum", "max"}
KeyValues == {3, 5}
ObjValues == {1, 2}
FillValues == {-1, 0}
Backings == {"numpy", "dask"}

Keys(n) == [backing : Backings, data : [1..n -> KeyValues]]

\* expected_groups arguments for k keys: None, or the same two levels for
\* every key, in the caller's order
ExpectedArgs(k) == {None, [i \in 1..k |-> <<5, 3>>]}

InitReduce ==
    /\ chunks = <<>>
    /\ labels = <<>>
    /\ pc = "start"
    /\ newchunks = <<>>
    /\ walked = FALSE
    /\ again = <<>>
    /\ againWalked = FALSE
    /\ rechunk = NoRechunk
    /\ call = NoCall
    /\ outcome = NoOutcome

XarrayReduceCall ==
    /\ pc = "start"
    /\ \E n \in 1..MaxObjLen, k \in 1..MaxKeys :
       \E obj \in [1..n -> ObjValues], by \in [1..k -> Keys(n)],
          func \in Funcs, expected_groups \in ExpectedArgs(k),
          fill_value \in FillValues :
          /\ call' = [op |-> "xarray_reduce", obj |-> obj, by |-> by,
                      func |-> func, expected_groups |-> expected_groups,
                      fill_value |-> fill_value]
          /\ outcome' = XarrayReduce(obj, None, by, func, expected_groups,
                                     fill_value, FALSE)
    /\ pc' = "xarray_reduce"
    /\ UNCHANGED <<chunks, labels, newchunks, walked, again, againWalked,
                   rechunk>>

\* the canonical shapes of a reduction by several keys, each with at least
\* two levels
Shapes ==
    {s \in UNION {[1..k -> 2..MaxLevels] : k \in 2..MaxAxes} :
        Prod(s) <= MaxCodes}

\* lists of distinct codes below n, of length at most MaxObserved
CodeLists(n) ==
    {l \in UNION {[1..k -> 0..(n - 1)] : k \in 0..MaxObserved} :
        \A i, j \in 1..Len(l) : i # j => l[i] # l[j]}

\* results of groupby_reduce with the given number of rows for k observed
\* codes: row r holds the values of the first row plus 10 * (r - 1), so that
\* all rows differ
ResultArrays(rows, k) ==
    {[r \in 1..rows |-> [j \in 1..k |-> base[j] + 10 * (r - 1)]] :
        base \in [1..k -> {7, 8}]}

\* the wrapper called back with what groupby_reduce returned for the codes
\* it observed
WrapperCall ==
    /\ pc = "start"
    /\ \E group_shape \in Shapes, fill_value \in FillValues,
          rows \in 1..MaxRows :
       \E groups \in CodeLists(Prod(group_shape)) :
       \E result \in ResultArrays(rows, Len(groups)) :
          /\ call' = [op |-> "wrapper", result |-> result, groups |-> groups,
                      group_shape |-> group_shape, fill_value |-> fill_value]
          /\ outcome' = [error |-> "none",
                         reindexed |-> Reindexed(result, groups, group_shape,
                                                 fill_value),
                         result |-> Wrapper(result, groups, Len(group_shape),
                                            group_shape, fill_value)]
    /\ pc' = "wrapper"
    /\ UNCHANGED <<chunks, labels, newchunks, walked, again, againWalked,
                   rechunk>>

NextReduce == XarrayReduceCall \/ WrapperCall

SpecReduce == InitReduce /\ [][NextReduce]_vars

\* --------------------------------------------- calls of resample_reduce
\* contiguous group slices covering 0..n; the last stop may be None
Slices(sizes, lastNone) ==
    [g \in 1..Len(sizes) |->
        [start |-> CumSum(sizes)[g] - sizes[g],
         stop |-> IF g = Len(sizes) /\ lastNone THEN NoneStop
                  ELSE CumSum(sizes)[g]]]

InitResample == InitReduce

ResampleReduceCall ==
    /\ pc = "start"
    /\ \E n \in 1..MaxResampleLen :
       \E obj \in [1..n -> ObjValues],
          objchunks \in Partitionings(n) \cup {None},
          sizes \in Partitionings(n), lastNone \in BOOLEAN, func \in Funcs :
          /\ call' = [op |-> "resample_reduce", obj |-> obj,
                      chunks |-> objchunks,
                      group_indices |-> Slices(sizes, lastNone),
                      func |-> func]
          /\ outcome' = ResampleReduce(obj, objchunks, Slices(sizes, lastNone),
                                       [g \in 1..Len(sizes) |-> 100 + g], func)
    /\ pc' = "resample_reduce"
    /\ UNCHANGED <<chunks, labels, newchunks, walked, again, againWalked,
                   rechunk>>

NextResample == ResampleReduceCall

SpecResample == InitResample /\ [][NextResample]_vars

\* ------------------------------------------------ properties of the optimizer
\* position b (1..n) is a boundary of a partitioning iff b is a prefix sum;
\* it splits a group iff it is inside the sequence and the elements on both
\* sides carry the same label
Boundaries(cs) == {CumSum(cs)[i] : i \in 1..Len(cs)}

NoSplit(cs, ls) ==
    \A b \in Boundaries(cs) : b = Len(ls) \/ ls[b] # ls[b + 1]

\* every chunk end index is the last index of the group located there
Aligned(cs, ls) == NoSplit(cs, ls)

IsPartitioningOf(cs, total) ==
    /\ \A i \in 1..Len(cs) : cs[i] > 0
    /\ Sum(cs) = total

\* C1: the function returns a partitioning (positive entries summing to
\* sum(chunks)) on the fast path and after the greedy walk alike, and the
\* assertion of line 173 never fails, in the first or in a repeated call.
C1_ReturnsPartitioning ==
    /\ pc # "AssertionError"
    /\ pc \in {"optimized", "reapplied"} =>
          IsPartitioningOf(newchunks, Sum(chunks))
    /\ pc = "rechunked" /\ Len(rechunk.calls) = 1 =>
          IsPartitioningOf(rechunk.calls[1][rechunk.dim], Sum(chunks))

C1_Witness ==
    /\ pc = "optimized"
    /\ walked
    /\ Len(newchunks) > 1
    /\ newchunks # chunks

\* C2: no boundary of the returned partitioning lies inside a group, also
\* when two or more original boundaries fall inside the same group.
C2_NeverSplitsGroup ==
    pc = "optimized" => NoSplit(newchunks, labels)

SharedGroup(cs, ls) ==
    \E i, j \in 1..Len(cs) :
        /\ i < j
        /\ ls[chunkidxOf(cs)[i] + 1] = ls[chunkidxOf(cs)[j] + 1]

C2_Witness ==
    /\ pc = "optimized"
    /\ walked
    /\ SharedGroup(chunks, labels)
    /\ Len(newchunks) > 1

\* C3: on aligned input the function returns chunks without walking and
\* rechunk_to_group_boundaries returns the original array and issues no
\* re-partition; on input that is not aligned the result differs from chunks
\* and exactly one re-partition is issued, for the grouping dimension only.
C3_IdentityOnAligned ==
    /\ pc = "optimized" /\ Aligned(chunks, labels) =>
          newchunks = chunks /\ ~walked
    /\ pc = "optimized" /\ ~Aligned(chunks, labels) =>
          newchunks # chunks /\ walked
    /\ pc = "rechunked" /\ Aligned(chunks, labels) =>
          rechunk.same /\ rechunk.calls = <<>>
    /\ pc = "rechunked" /\ ~Aligned(chunks, labels) =>
          /\ ~rechunk.same
          /\ Len(rechunk.calls) = 1
          /\ DOMAIN rechunk.calls[1] = {rechunk.dim}
          /\ rechunk.calls[1][rechunk.dim] # chunks

C3_Witness ==
    /\ pc = "rechunked"
    /\ chunks = <<3, 4, 2>>
    /\ labels = <<0, 0, 0, 1, 1, 1, 1, 2, 2>>
    /\ rechunk.same

\* C4: applying the function to its own output with the same labels takes
\* the fast path and returns that output unchanged.
C4_Idempotent ==
    pc = "reapplied" => again = newchunks /\ ~againWalked

C4_Witness ==
    /\ pc = "reapplied"
    /\ walked
    /\ Len(newchunks) > 1

\* first and last 0-based index of group g in ls
FirstOf(ls, g) == SetMin({i - 1 : i \in {j \in 1..Len(ls) : ls[j] = g}})
LastOf(ls, g) == SetMax({i - 1 : i \in {j \in 1..Len(ls) : ls[j] = g}})

OwnGroupTriples(cs, ls) ==
    [i \in 1..Len(cs) |->
        <<chunkidxOf(cs)[i],
          FirstOf(ls, ls[chunkidxOf(cs)[i] + 1]),
          LastOf(ls, ls[chunkidxOf(cs)[i] + 1])>>]

\* the partitioning the loop of lines 159-171 produces when every original
\* boundary is paired with the first and last index of its own group
OwnGroupChunks(cs, ls) ==
    LET idx == Walk(<<0>>, OwnGroupTriples(cs, ls))
        full == IF Last(idx) # Len(ls) THEN Append(idx, Len(ls)) ELSE idx
    IN  Diff(full)

\* C9: in the greedy walk every original boundary c is evaluated against the
\* first and last index of its own group, also when several boundaries fall
\* inside one group (skipped if the previous emitted boundary is past the
\* group's last index, else first when strictly closer and past the previous
\* emitted boundary, else last + 1), so the returned partitioning is the one
\* that walk produces.
C9_OwnGroupWalk ==
    pc = "optimized" /\ walked =>
        newchunks = OwnGroupChunks(chunks, labels)


\* ------------------------------------------------ properties of the reduction
NumLazy(by) == Cardinality({k \in 1..Len(by) : by[k].backing # "numpy"})

\* C7 as stated: a call with more than one key raises the ValueError exactly
\* when more than one key is non-materialized, and then before any broadcast,
\* factorization or reduction.
C7_RejectsMoreThanOneLazy ==
    pc = "xarray_reduce" /\ Len(call.by) > 1 =>
        /\ outcome.error = "ValueError" <=> NumLazy(call.by) > 1
        /\ outcome.error = "ValueError" => outcome.steps = <<>>

\* C7 amended: a call with more than one key raises the ValueError exactly
\* when at least one key is non-materialized, and then before any broadcast,
\* factorization or reduction.
C7_RejectsAnyLazy ==
    pc = "xarray_reduce" /\ Len(call.by) > 1 =>
        /\ outcome.error = "ValueError" <=> NumLazy(call.by) >= 1
        /\ outcome.error = "ValueError" => outcome.steps = <<>>

C7_Witness ==
    /\ pc = "xarray_reduce"
    /\ Len(call.by) = 2
    /\ NumLazy(call.by) = 1
    /\ outcome.error = "ValueError"

IsSortedUniqueOf(seq, data) ==
    /\ \A i \in 1..(Len(seq) - 1) : seq[i] < seq[i + 1]
    /\ {seq[i] : i \in 1..Len(seq)} = {data[i] : i \in 1..Len(data)}

\* C8: with one key, no expected values and a materialized key give the sorted
\* unique key values and shape (their count,); no expected values and a
\* non-materialized key raise NotImplementedError without reducing; supplied
\* expected values are used as given with shape (len(expected_groups[0]),).
C8_SingleKeyPath ==
    pc = "xarray_reduce" /\ Len(call.by) = 1 =>
        /\ call.expected_groups = None /\ call.by[1].backing = "numpy" =>
              /\ outcome.error = "none"
              /\ Len(outcome.expected_groups) = 1
              /\ IsSortedUniqueOf(outcome.expected_groups[1], call.by[1].data)
              /\ outcome.group_shape =
                    <<Cardinality({call.by[1].data[i] :
                                      i \in 1..Len(call.by[1].data)})>>
        /\ call.expected_groups = None /\ call.by[1].backing # "numpy" =>
              /\ outcome.error = "NotImplementedError"
              /\ \A i \in 1..Len(outcome.steps) : outcome.steps[i] # "reduce"
        /\ call.expected_groups # None =>
              /\ outcome.error = "none"
              /\ outcome.expected_groups = call.expected_groups
              /\ outcome.group_shape = <<Len(call.expected_groups[1])>>

C8_Witness ==
    /\ pc = "xarray_reduce"
    /\ Len(call.by) = 1
    /\ call.expected_groups = None
    /\ call.by[1] = [backing |-> "numpy", data |-> <<5, 3>>]
    /\ outcome.error = "none"

\* the value groupby_reduce reported for code k in row r, or the fill value
Reported(r, k) ==
    IF \E j \in 1..Len(call.groups) : call.groups[j] = k
    THEN call.result[r][CHOOSE j \in 1..Len(call.groups) : call.groups[j] = k]
    ELSE call.fill_value

PermuteSeq(seq, p) == [i \in 1..Len(seq) |-> seq[p[i]]]

\* C5: for several keys the wrapper reindexes every partial result to exactly
\* N = product(group_shape) entries, entry k holding the value reported for
\* code k or else the fill value, whatever the order of the observed codes;
\* codes {1,4}, fill -1 and shape (2,3) leave non-fill cells only at (0,1)
\* and (1,1).
C5_Densifies ==
    pc = "wrapper" =>
        /\ \A r \in 1..Len(call.result) :
              /\ Len(outcome.reindexed[r]) = Prod(call.group_shape)
              /\ \A k \in 0..(Prod(call.group_shape) - 1) :
                    outcome.reindexed[r][k + 1] = Reported(r, k)
        /\ \A p \in Permutations(1..Len(call.groups)) :
              Wrapper([r \in 1..Len(call.result) |->
                          PermuteSeq(call.result[r], p)],
                      PermuteSeq(call.groups, p), Len(call.group_shape),
                      call.group_shape, call.fill_value) = outcome.result
        /\ /\ call.group_shape = <<2, 3>>
           /\ {call.groups[j] : j \in 1..Len(call.groups)} = {1, 4}
           /\ call.fill_value = -1
           => \A r \in 1..Len(call.result) : \A i \in 1..2, j \in 1..3 :
                 outcome.result[r][i][j] # -1 <=> (i - 1 \in {0, 1} /\ j - 1 = 1)

C5_Witness ==
    /\ pc = "wrapper"
    /\ call.group_shape = <<2, 3>>
    /\ call.groups = <<4, 1>>
    /\ call.fill_value = -1
    /\ call.result = <<<<7, 8>>>>

\* the index tuples (0-based) within a shape
IndexTuples(shape) ==
    {idx \in [1..Len(shape) -> 0..(MaxLevels + 1)] :
        \A k \in 1..Len(shape) : idx[k] < shape[k]}

\* element idx of a nested array
RECURSIVE At(_, _)
At(nested, idx) ==
    IF Len(idx) = 0 THEN nested ELSE At(nested[idx[1] + 1], Tail(idx))

\* idx_0 + idx_1*shape_0 + idx_2*shape_0*shape_1 + ...
MixedRadixCode(idx, shape) ==
    Sum([k \in 1..Len(idx) |-> idx[k] * Prod(SubSeq(shape, 1, k - 1))])

\* idx_{K-1} + idx_{K-2}*shape_{K-1} + idx_{K-3}*shape_{K-1}*shape_{K-2} + ...
RowMajorCode(idx, shape) ==
    Sum([k \in 1..Len(idx) |-> idx[k] * Prod(SubSeq(shape, k + 1, Len(shape)))])

\* C10 as stated: the value densified at code idx_0 + idx_1*shape_0 + ...
\* ends up at output position (idx_0, ..., idx_K-1).
C10_InverseOfFirstKeyFastest ==
    pc = "wrapper" =>
        \A r \in 1..Len(call.result) :
        \A idx \in IndexTuples(call.group_shape) :
            At(outcome.result[r], idx) =
                Reported(r, MixedRadixCode(idx, call.group_shape))

\* C10 amended: the reshape inverts the row-major linearization, in which the
\* last key varies fastest: the value densified at code
\* idx_{K-1} + idx_{K-2}*shape_{K-1} + ... ends up at output position
\* (idx_0, ..., idx_K-1), so codes and index tuples are in bijection.
C10_InverseOfRowMajor ==
    pc = "wrapper" =>
        /\ \A r \in 1..Len(call.result) :
           \A idx \in IndexTuples(call.group_shape) :
               At(outcome.result[r], idx) =
                   Reported(r, RowMajorCode(idx, call.group_shape))
        /\ \A k \in 0..(Prod(call.group_shape) - 1) :
              Cardinality({idx \in IndexTuples(call.group_shape) :
                              RowMajorCode(idx, call.group_shape) = k}) = 1

C10_Witness ==
    /\ pc = "wrapper"
    /\ call.group_shape = <<2, 2, 2>>
    /\ call.groups = <<6, 3>>
    /\ call.result = <<<<7, 8>>, <<17, 18>>>>
    /\ call.fill_value = 0
    /\ At(outcome.result[1], <<1, 1, 0>>) = 7
    /\ At(outcome.result[2], <<0, 1, 1>>) = 18

\* the elements of obj in group slice g
SliceOf(obj, slicer) ==
    SubSeq(obj, slicer.start + 1,
           IF slicer.stop = NoneStop THEN Len(obj) ELSE slicer.stop)

\* C6: after rechunk_to_group_boundaries every group lies in one partition,
\* so the blockwise reduction of resample_reduce gives every group the value
\* of reducing its elements in a single chunk.
C6_BlockwiseEqualsSingleChunk ==
    pc = "resample_reduce" =>
        /\ outcome.error = "none"
        /\ outcome.chunks # None => NoSplit(outcome.chunks, outcome.by)
        /\ outcome.result =
              <<[g \in 1..Len(call.group_indices) |->
                    Agg(call.func, SliceOf(call.obj, call.group_indices[g]))]>>

C6_Witness ==
    /\ pc = "resample_reduce"
    /\ call.chunks # None
    /\ ~Aligned(call.chunks, outcome.by)
    /\ Len(outcome.chunks) > 1
    /\ Len(call.group_indices) > 2

====
